---------------------------- MODULE Spec2Model ----------------------------
(***************************************************************************)
(* Model of the HNA666 flight-map generator (src/data_process/h.py):       *)
(* the record normaliser (parse_time, parse_days), the flight classifier   *)
(* (is_morning_flight), the route aggregator (merge_flights_to_routes) and *)
(* the driver create_flight_visualization, with the script of the page it  *)
(* writes (filters, route clicks, control panel and info panel), and the   *)
(* night filter of src/data_process/pre.py (filter_flight_by_time).        *)
(*                                                                         *)
(* Python strings are sequences of one-character strings, so that          *)
(* strip/split/replace/int/str are computed character by character.        *)
(* A missing spreadsheet cell (pandas NaN) is the value NaN below.         *)
(***************************************************************************)
EXTENDS Integers, Sequences, FiniteSets, TLC

VARIABLES
    \* ---- parse_time harness ----
    tpc,            \* "idle" | "call" | "ret"
    time_str,       \* the argument of parse_time
    time_info,      \* the value parse_time returned
    \* ---- parse_days harness ----
    dpc,            \* "idle" | "call" | "ret"
    days_str,       \* the argument of parse_days
    days_out,       \* what parse_days returned or raised
    \* ---- aircraft cell harness ----
    apc,            \* "idle" | "call" | "classified" | "ret"
    ac_cell,        \* the aircraft-type cell of a row
    ac_size,        \* classify_aircraft_size of the cell
    ac_type,        \* the flight's aircraft_type
    ac_parts,       \* the flight's individual_aircraft
    \* ---- merge_flights_to_routes ----
    mpc,            \* "idle" | "loop" | "finalize" | "ret"
    m_flights,      \* the argument `flights`
    m_i,            \* number of flights the for loop has consumed
    m_routes,       \* the defaultdict `routes`, in insertion order
    route_list,     \* the returned list
    \* ---- create_flight_visualization ----
    pc,             \* position in create_flight_visualization
    coord_file,     \* rows of the coordinate workbook, or unreadable
    coord_dict,     \* result of load_airport_coordinates
    excel_file,     \* the input workbook: readable or not, and its rows
    df,             \* the rows of the input sheet
    idx,            \* number of rows the for loop has consumed
    flights,        \* local `flights`
    airports,       \* local `airports`
    routes,         \* local `routes`
    output_file,    \* content of HNA<prefix>_flight_map_v0924h.html
    \* ---- the generated page: filters and route display ----
    gpc,            \* "idle" | "ready"
    changes,        \* number of control changes since the page opened
    checked,        \* the day check boxes that are checked
    sel,            \* the values of the six select controls
    filters,        \* the const `filters` of the last updateDisplay
    shown,          \* filteredRoutes of the last updateDisplay (indices)
    info,           \* what the last route click handed to showInfoPanel
    \* ---- two invocations on the same files ----
    run_no,         \* 0: not used | 1: first invocation | 2: second one
    first,          \* what the first invocation ended with
    \* ---- pre.py: filter_flight_by_time ----
    npc,            \* "idle" | "apply" | "select" | "ret"
    n_df,           \* the departure-time column of the argument df
    n_i,            \* number of cells apply() has handed to is_night_flight
    mask,           \* the boolean Series `mask`, cell by cell
    filtered_df,    \* the returned rows, each with its index label
    \* ---- one departure time read by pre.py and by h.py ----
    kpc,            \* "idle" | "call" | "ret"
    clock,          \* hour and minute is_night_flight derived, or None
    \* ---- the generated page: control panel and info panel ----
    ppc,            \* "idle" | "open": the page script has run
    panelVisible,   \* let panelVisible
    isAnimating,    \* let isAnimating
    cp_visible,     \* #control-panel has class 'visible'
    bd_visible,     \* #panel-backdrop has class 'visible'
    btn_open,       \* #filter-toggle-btn has class 'panel-open'
    faded,          \* the background elements have class 'faded'
    ip_display,     \* #info-panel style.display: "" | "block" | "none"
    ip_visible,     \* #info-panel has class 'visible'
    ip_hiding,      \* #info-panel has class 'hiding'
    toggle_timers,  \* pending 100 ms callbacks of toggleControlPanel
    hide_timers,    \* number of pending 300 ms callbacks of hideInfoPanel
    frames,         \* number of pending requestAnimationFrame callbacks
    last_call,      \* the later of showInfoPanel ("show"), hideInfoPanel
    toggles         \* number of calls of toggleControlPanel so far

tvars == <<tpc, time_str, time_info>>
hvars == <<dpc, days_str, days_out, apc, ac_cell, ac_size, ac_type, ac_parts>>
mvars == <<mpc, m_flights, m_i, m_routes, route_list>>
cvars == <<pc, coord_file, coord_dict, excel_file, df, idx, flights, airports,
           routes, output_file>>
gvars == <<gpc, changes, checked, sel, filters, shown, info>>
rvars == <<run_no, first>>
nvars == <<npc, n_df, n_i, mask, filtered_df, kpc, clock>>
pvars == <<ppc, panelVisible, isAnimating, cp_visible, bd_visible, btn_open,
           faded, ip_display, ip_visible, ip_hiding, toggle_timers,
           hide_timers, frames, last_call, toggles>>
xvars == <<gvars, rvars, nvars, pvars>>
\* the variable groups other than one of the added groups
gvars_rest == <<rvars, nvars, pvars>>
rvars_rest == <<gvars, nvars, pvars>>
nvars_rest == <<gvars, rvars, pvars>>
pvars_rest == <<gvars, rvars, nvars>>
vars == <<tpc, time_str, time_info,
          dpc, days_str, days_out, apc, ac_cell, ac_size, ac_type, ac_parts,
          mpc, m_flights, m_i, m_routes, route_list,
          pc, coord_file, coord_dict, excel_file, df, idx, flights, airports,
          routes, output_file,
          gpc, changes, checked, sel, filters, shown, info,
          run_no, first,
          npc, n_df, n_i, mask, filtered_df, kpc, clock,
          ppc, panelVisible, isAnimating, cp_visible, bd_visible, btn_open,
          faded, ip_display, ip_visible, ip_hiding, toggle_timers,
          hide_timers, frames, last_call, toggles>>

----------------------------------------------------------------------------
(* Bounds of the model.                                                    *)

\* longest time string handed to parse_time
MaxTimeLen == 5
\* longest days cell handed to parse_days
MaxDaysLen == 4
\* longest free-form aircraft cell
MaxAcLen == 4
\* most aircraft codes joined in one aircraft cell
MaxCodes == 2
\* longest flight list handed to merge_flights_to_routes
MaxFlights == 3
\* most rows in the input sheet
MaxRows == 3
\* most rows in the sheet of a page that is opened
MaxPageRows == 2
\* most changes of a filter control after the page opened
MaxChanges == 2

----------------------------------------------------------------------------
(* Python string primitives.                                               *)

Digits == {"0", "1", "2", "3", "4", "5", "6", "7", "8", "9"}

DigitVal(c) ==
    CASE c = "0" -> 0 [] c = "1" -> 1 [] c = "2" -> 2 [] c = "3" -> 3
      [] c = "4" -> 4 [] c = "5" -> 5 [] c = "6" -> 6 [] c = "7" -> 7
      [] c = "8" -> 8 [] c = "9" -> 9

DigitChar(n) ==
    CASE n = 0 -> "0" [] n = 1 -> "1" [] n = 2 -> "2" [] n = 3 -> "3"
      [] n = 4 -> "4" [] n = 5 -> "5" [] n = 6 -> "6" [] n = 7 -> "7"
      [] n = 8 -> "8" [] n = 9 -> "9"

\* pandas NaN: a cell with no value
NaN == <<"NaN">>

\* pd.isna(x)
isna(x) == x = NaN

\* str(x) of a cell: str(float('nan')) is "nan", a string is itself
str(x) == IF isna(x) THEN <<"n", "a", "n">> ELSE x

\* s[a:b] with 0-based Python slice bounds 0 <= a, b
Slice(s, a, b) ==
    LET hi == IF b > Len(s) THEN Len(s) ELSE b
    IN  IF a >= hi THEN <<>> ELSE SubSeq(s, a + 1, hi)

\* "c in s"
Contains(s, c) == \E i \in 1..Len(s) : s[i] = c

\* s.count(c)
Count(s, c) == Cardinality({i \in 1..Len(s) : s[i] = c})

\* characters that str.isdigit() accepts and int() rejects; "sup2" stands
\* for the superscript two
OtherDigits == {"sup2"}

\* c.isdigit() for one character
IsDigitChar(c) == c \in Digits \cup OtherDigits

\* s.isdigit(): non-empty and every character a digit
isdigit(s) == Len(s) > 0 /\ \A i \in 1..Len(s) : IsDigitChar(s[i])

\* the strings of decimal digits, which int() converts
isdecimal(s) == Len(s) > 0 /\ \A i \in 1..Len(s) : s[i] \in Digits

\* s.strip(): drop leading and trailing white space
RECURSIVE lstrip(_)
lstrip(s) == IF s # <<>> /\ Head(s) = " " THEN lstrip(Tail(s)) ELSE s

RECURSIVE rstrip(_)
rstrip(s) ==
    IF s # <<>> /\ s[Len(s)] = " " THEN rstrip(SubSeq(s, 1, Len(s) - 1)) ELSE s

strip(s) == rstrip(lstrip(s))

\* s.replace(c, r) for a character c and a string r
RECURSIVE replace(_, _, _)
replace(s, c, r) ==
    IF s = <<>> THEN <<>>
    ELSE (IF Head(s) = c THEN r ELSE <<Head(s)>>) \o replace(Tail(s), c, r)

\* s.split(c): the pieces between the occurrences of c (always >= 1 piece)
RECURSIVE split(_, _)
split(s, c) ==
    IF ~Contains(s, c) THEN <<s>>
    ELSE LET k == CHOOSE i \in 1..Len(s) :
                    s[i] = c /\ \A j \in 1..(i - 1) : s[j] # c
         IN  <<SubSeq(s, 1, k - 1)>> \o split(SubSeq(s, k + 1, Len(s)), c)

\* value of a non-empty digit string
RECURSIVE DigitsToNat(_)
DigitsToNat(s) ==
    IF s = <<>> THEN 0
    ELSE DigitsToNat(SubSeq(s, 1, Len(s) - 1)) * 10 + DigitVal(s[Len(s)])

\* str(n) for a natural number n
RECURSIVE NatToStr(_)
NatToStr(n) ==
    IF n < 10 THEN <<DigitChar(n)>>
    ELSE NatToStr(n \div 10) \o <<DigitChar(n % 10)>>

\* str(n) for an integer n
IntToStr(n) == IF n < 0 THEN <<"-">> \o NatToStr(-n) ELSE NatToStr(n)

\* int(s): white space is stripped, one optional sign, then digits only;
\* anything else raises ValueError (ok = FALSE)
int(s) ==
    LET t    == strip(s)
        sgn  == t # <<>> /\ Head(t) \in {"-", "+"}
        body == IF sgn THEN Tail(t) ELSE t
    IN  IF isdecimal(body)
        THEN [ok |-> TRUE,
              val |-> IF sgn /\ Head(t) = "-" THEN -DigitsToNat(body)
                      ELSE DigitsToNat(body)]
        ELSE [ok |-> FALSE, val |-> 0]

\* int(float(s)) for a string s of digits and '.' with at least one digit:
\* float() raises ValueError on more than one '.' and on a digit that is
\* not decimal, int() truncates
int_float(s) ==
    IF Count(s, ".") > 1 \/ \E i \in 1..Len(s) : s[i] \in OtherDigits
    THEN [ok |-> FALSE, val |-> 0]
    ELSE [ok |-> TRUE, val |-> DigitsToNat(Head(split(s, ".")))]

\* a mutation of Pad2: the number is written without padding
Pad2_unpadded(n) == IntToStr(n)

\* format(n, "02d")
Pad2(n) == LET s == IntToStr(n) IN IF Len(s) < 2 THEN <<"0">> \o s ELSE s

----------------------------------------------------------------------------
(* parse_time                                                              *)

None == [none |-> TRUE]

\* the suffix appended to display when is_next_day
NextDaySuffix == <<"(next day)">>

TimeInfo(hour, minute) ==
    [hour |-> hour,
     minute |-> minute,
     is_next_day |-> hour < 6,
     display |-> Pad2(hour) \o <<":">> \o Pad2(minute)
                   \o (IF hour < 6 THEN NextDaySuffix ELSE <<>>)]

\* the colon branch: hour, minute = map(int, time_str.split(':'))
parse_colon(s) ==
    LET parts == split(s, ":")
    IN  IF Len(parts) # 2 THEN None
        ELSE IF ~int(parts[1]).ok \/ ~int(parts[2]).ok THEN None
        ELSE TimeInfo(int(parts[1]).val, int(parts[2]).val)

\* a mutation of parse_width: no branch for three characters
parse_width_no3(s) ==
    IF Len(s) <= 2
    THEN IF int(s).ok THEN TimeInfo(0, int(s).val) ELSE None
    ELSE IF int(Slice(s, 0, 2)).ok /\ int(Slice(s, 2, Len(s))).ok
         THEN TimeInfo(int(Slice(s, 0, 2)).val, int(Slice(s, 2, Len(s))).val)
         ELSE None

\* the fixed-width rule applied to the (possibly renormalised) string
parse_width(s) ==
    IF Len(s) <= 2
    THEN IF int(s).ok THEN TimeInfo(0, int(s).val) ELSE None
    ELSE IF Len(s) = 3
    THEN IF int(Slice(s, 0, 1)).ok /\ int(Slice(s, 1, 3)).ok
         THEN TimeInfo(int(Slice(s, 0, 1)).val, int(Slice(s, 1, 3)).val)
         ELSE None
    ELSE IF int(Slice(s, 0, 2)).ok /\ int(Slice(s, 2, Len(s))).ok
         THEN TimeInfo(int(Slice(s, 0, 2)).val, int(Slice(s, 2, Len(s))).val)
         ELSE None

\* the digit branch: renormalise through int(float(.)) when the string is
\* digits and dots only, then apply the fixed-width rule
parse_digits(s) ==
    IF isdigit(replace(s, ".", <<>>))
    THEN IF int_float(s).ok THEN parse_width(NatToStr(int_float(s).val))
         ELSE None
    ELSE parse_width(s)

parse_time(x) ==
    IF isna(x) THEN None
    ELSE LET s == strip(str(x))
         IN  IF Contains(s, ":") THEN parse_colon(s) ELSE parse_digits(s)

\* a mutation of is_morning_flight: noon counted as morning
is_morning_flight_le12(ti) ==
    IF ti = None THEN FALSE ELSE 6 <= ti.hour /\ ti.hour <= 12

\* is_morning_flight
is_morning_flight(ti) ==
    IF ti = None THEN FALSE ELSE 6 <= ti.hour /\ ti.hour < 12


----------------------------------------------------------------------------
(* parse_days, classify_aircraft_size, aircraft tokens                     *)

\* [int(d) for d in s if d.isdigit()], every such d a decimal digit
RECURSIVE digits_of(_)
digits_of(s) ==
    IF s = <<>> THEN <<>>
    ELSE (IF Head(s) \in Digits THEN <<DigitVal(Head(s))>> ELSE <<>>)
         \o digits_of(Tail(s))

\* parse_days: the digit characters of the stripped cell, as integers; the
\* comprehension raises ValueError (ok = FALSE) as soon as int() meets a
\* digit it does not convert
parse_days(x) ==
    IF isna(x) THEN [ok |-> TRUE, val |-> <<>>]
    ELSE LET s == strip(str(x))
         IN  IF \E i \in 1..Len(s) : s[i] \in OtherDigits
             THEN [ok |-> FALSE, val |-> <<>>]
             ELSE [ok |-> TRUE, val |-> digits_of(s)]

\* c.upper() on the letters that occur in aircraft codes
UpperChar(c) ==
    CASE c = "a" -> "A" [] c = "b" -> "B" [] c = "e" -> "E"
      [] c = "n" -> "N" [] c = "m" -> "M" [] OTHER -> c

upper(s) == [i \in 1..Len(s) |-> UpperChar(s[i])]

\* "code in s" for strings: substring containment
IsSubstring(code, s) ==
    \E k \in 0..(Len(s) - Len(code)) : SubSeq(s, k + 1, k + Len(code)) = code

small_aircraft == {<<"E", "1", "9", "0">>, <<"E", "1", "9", "5">>}

medium_aircraft ==
    {<<"A", "3", "1", "9">>, <<"A", "1", "9", "N">>, <<"A", "3", "2", "0">>,
     <<"A", "2", "0", "N">>, <<"A", "2", "1", "N">>, <<"A", "3", "2", "1">>,
     <<"B", "7", "3", "7">>, <<"B", "7", "3", "8">>, <<"B", "3", "8", "M">>}

large_aircraft ==
    {<<"A", "3", "3", "2">>, <<"A", "3", "3", "3">>,
     <<"B", "7", "8", "8">>, <<"B", "7", "8", "9">>}

\* a mutation of classify_aircraft_size: the first matching category wins
classify_aircraft_size_first(x) ==
    IF isna(x) THEN "default"
    ELSE LET s == upper(strip(str(x)))
         IN  IF \E a \in small_aircraft : IsSubstring(a, s) THEN "small"
             ELSE IF \E a \in medium_aircraft : IsSubstring(a, s) THEN "medium"
             ELSE IF \E a \in large_aircraft : IsSubstring(a, s) THEN "large"
             ELSE "default"

\* classify_aircraft_size; "default", "small", "medium" and "large" stand
\* for the four Chinese labels of the source
classify_aircraft_size(x) ==
    IF isna(x) THEN "default"
    ELSE LET s == upper(strip(str(x)))
             has_small  == \E a \in small_aircraft : IsSubstring(a, s)
             has_medium == \E a \in medium_aircraft : IsSubstring(a, s)
             has_large  == \E a \in large_aircraft : IsSubstring(a, s)
             size_types_count == (IF has_small THEN 1 ELSE 0)
                               + (IF has_medium THEN 1 ELSE 0)
                               + (IF has_large THEN 1 ELSE 0)
         IN  IF size_types_count = 0 THEN "default"
             ELSE IF size_types_count = 1
             THEN (IF has_small THEN "small"
                   ELSE IF has_medium THEN "medium" ELSE "large")
             ELSE "default"

\* the sentinel used for a missing aircraft type
UnknownAircraft == <<"unknown-aircraft">>

\* str(row['aircraft_type']) if not pd.isna(...) else the sentinel
aircraft_type_of(cell) == IF ~isna(cell) THEN str(cell) ELSE UnknownAircraft

\* s.split() with no argument: the maximal runs of non-blank characters
RECURSIVE split_ws(_)
split_ws(s) ==
    LET t == lstrip(s)
    IN  IF t = <<>> THEN <<>>
        ELSE IF ~Contains(t, " ") THEN <<t>>
        ELSE LET k == CHOOSE i \in 1..Len(t) :
                        t[i] = " " /\ \A j \in 1..(i - 1) : t[j] # " "
             IN  <<SubSeq(t, 1, k - 1)>> \o split_ws(SubSeq(t, k + 1, Len(t)))

\* a mutation of aircraft_parts: the commas are not replaced
aircraft_parts_slash_only(aircraft_type) ==
    IF aircraft_type # <<>> /\ aircraft_type # UnknownAircraft
    THEN split_ws(replace(aircraft_type, "/", <<" ">>))
    ELSE <<>>

\* aircraft_type.replace('/', ' ').replace(',', ' ').split(), guarded by
\* "aircraft_type and aircraft_type != unknown"
aircraft_parts(aircraft_type) ==
    IF aircraft_type # <<>> /\ aircraft_type # UnknownAircraft
    THEN split_ws(replace(replace(aircraft_type, "/", <<" ">>), ",", <<" ">>))
    ELSE <<>>

Range(f) == {f[i] : i \in DOMAIN f}

----------------------------------------------------------------------------
(* One spreadsheet row and the flight_info built from it                   *)

Row(al, fn, dep, arr, dep_t, arr_t, ds, ac) ==
    [airline |-> al, flight_number |-> fn, departure |-> dep, arrival |-> arr,
     departure_time |-> dep_t, arrival_time |-> arr_t, days |-> ds,
     aircraft_type |-> ac]

\* a mutation of city_of: the cell is looked up without strip()
city_of_unstripped(cell) == str(cell)

\* departure_city = str(row['departure']).strip(), likewise arrival_city
city_of(cell) == strip(str(cell))

\* the body of the row loop after both coordinates resolved
flight_info(row, dep_coord, arr_coord) ==
    LET dep_time == parse_time(row.departure_time)
        arr_time == parse_time(row.arrival_time)
        aircraft_type == aircraft_type_of(row.aircraft_type)
    IN  [airline |-> str(row.airline),
         flight_number |-> str(row.flight_number),
         days |-> parse_days(row.days).val,
         departure |-> city_of(row.departure),
         arrival |-> city_of(row.arrival),
         departure_time |-> dep_time,
         arrival_time |-> arr_time,
         departure_coord |-> dep_coord,
         arrival_coord |-> arr_coord,
         aircraft_type |-> aircraft_type,
         aircraft_size |-> classify_aircraft_size(aircraft_type),
         is_morning |-> is_morning_flight(dep_time),
         individual_aircraft |-> aircraft_parts(aircraft_type)]

----------------------------------------------------------------------------
(* merge_flights_to_routes                                                 *)

\* the defaultdict factory
default_route ==
    [flights |-> <<>>, has_morning |-> FALSE, has_evening |-> FALSE,
     airlines |-> {}, aircraft_types |-> {}, aircraft_sizes |-> {},
     individual_aircraft |-> {}, departure |-> <<>>, arrival |-> <<>>,
     departure_coord |-> None, arrival_coord |-> None]

\* a mutation of route_key_of: the key is the departure alone
route_key_of_departure(flight) == flight.departure

\* f"{flight['departure']}-{flight['arrival']}"
route_key_of(flight) == flight.departure \o <<"-">> \o flight.arrival

\* a mutation of rederived_parts: the type string is added unsplit
rederived_parts_unsplit(flight) == {flight.aircraft_type}

\* the tokens merge_flights_to_routes derives again from aircraft_type
rederived_parts(flight) == Range(aircraft_parts(flight.aircraft_type))

\* a mutation of add_flight: has_evening is set by every flight
add_flight_evening(route, flight) ==
    [flights |-> Append(route.flights, flight),
     departure |-> flight.departure,
     arrival |-> flight.arrival,
     departure_coord |-> flight.departure_coord,
     arrival_coord |-> flight.arrival_coord,
     airlines |-> route.airlines \cup {flight.airline},
     aircraft_types |-> route.aircraft_types \cup {flight.aircraft_type},
     aircraft_sizes |-> route.aircraft_sizes \cup {flight.aircraft_size},
     individual_aircraft |->
         route.individual_aircraft
           \cup rederived_parts(flight)
           \cup Range(flight.individual_aircraft),
     has_morning |-> route.has_morning \/ flight.is_morning,
     has_evening |-> TRUE]

\* the accumulator after one flight was added to it
add_flight(route, flight) ==
    [flights |-> Append(route.flights, flight),
     departure |-> flight.departure,
     arrival |-> flight.arrival,
     departure_coord |-> flight.departure_coord,
     arrival_coord |-> flight.arrival_coord,
     airlines |-> route.airlines \cup {flight.airline},
     aircraft_types |-> route.aircraft_types \cup {flight.aircraft_type},
     aircraft_sizes |-> route.aircraft_sizes \cup {flight.aircraft_size},
     individual_aircraft |->
         route.individual_aircraft
           \cup rederived_parts(flight)
           \cup Range(flight.individual_aircraft),
     has_morning |-> route.has_morning \/ flight.is_morning,
     has_evening |-> route.has_evening \/ ~flight.is_morning]

\* a mutation of merge_one: a new key is put in front of the others
merge_one_front(rs, flight) ==
    LET key == route_key_of(flight)
    IN  IF \E i \in 1..Len(rs) : rs[i].key = key
        THEN [i \in 1..Len(rs) |->
                 IF rs[i].key = key
                 THEN [key |-> key, data |-> add_flight(rs[i].data, flight)]
                 ELSE rs[i]]
        ELSE <<[key |-> key, data |-> add_flight(default_route, flight)]>> \o rs

\* one iteration of "for flight in flights": routes[route_key] creates the
\* entry at the end of the dict on first sight of the key
merge_one(rs, flight) ==
    LET key == route_key_of(flight)
    IN  IF \E i \in 1..Len(rs) : rs[i].key = key
        THEN [i \in 1..Len(rs) |->
                 IF rs[i].key = key
                 THEN [key |-> key, data |-> add_flight(rs[i].data, flight)]
                 ELSE rs[i]]
        ELSE Append(rs, [key |-> key, data |-> add_flight(default_route, flight)])

\* a mutation of route_type_of: "or" in place of "and"
route_type_of_or(d) ==
    IF d.has_morning \/ d.has_evening THEN "both"
    ELSE IF d.has_morning THEN "morning" ELSE "evening"

\* route_type of a finished accumulator; "both", "morning" and "evening"
\* stand for the three Chinese labels of the source
route_type_of(d) ==
    IF d.has_morning /\ d.has_evening THEN "both"
    ELSE IF d.has_morning THEN "morning" ELSE "evening"

\* color of a finished accumulator
color_of(d) ==
    IF d.has_morning /\ d.has_evening THEN "#CE6A85"
    ELSE IF d.has_morning THEN "#FF8C61" ELSE "#4E598C"

\* a mutation of flight_count_of: the airlines are counted
flight_count_of_airlines(route_data) == Cardinality(route_data.airlines)

\* len(route_data['flights'])
flight_count_of(route_data) == Len(route_data.flights)

\* the second loop: dict items, in insertion order, to route records
finalize(rs) ==
    [i \in 1..Len(rs) |->
        [route_key |-> rs[i].key,
         departure |-> rs[i].data.departure,
         arrival |-> rs[i].data.arrival,
         departure_coord |-> rs[i].data.departure_coord,
         arrival_coord |-> rs[i].data.arrival_coord,
         flights |-> rs[i].data.flights,
         airlines |-> rs[i].data.airlines,
         aircraft_types |-> rs[i].data.aircraft_types,
         aircraft_sizes |-> rs[i].data.aircraft_sizes,
         individual_aircraft |-> rs[i].data.individual_aircraft,
         color |-> color_of(rs[i].data),
         route_type |-> route_type_of(rs[i].data),
         flight_count |-> flight_count_of(rs[i].data),
         has_morning |-> rs[i].data.has_morning,
         has_evening |-> rs[i].data.has_evening]]

RECURSIVE merge_loop(_, _)
merge_loop(rs, fs) ==
    IF fs = <<>> THEN rs ELSE merge_loop(merge_one(rs, Head(fs)), Tail(fs))

merge_flights_to_routes(fs) == finalize(merge_loop(<<>>, fs))


----------------------------------------------------------------------------
(* Workbooks, load_airport_coordinates, the output file                    *)

\* a workbook pd.read_excel cannot read (missing, no such sheet, corrupt)
Unreadable == [ok |-> FALSE, rows |-> <<>>]

Workbook(rows) == [ok |-> TRUE, rows |-> rows]

\* a dict with no key
EmptyDict == [k \in {} |-> <<>>]

\* d[k] = v
dict_set(d, k, v) ==
    [x \in (DOMAIN d) \cup {k} |-> IF x = k THEN v ELSE d[x]]

\* lat, lng = map(float, coord_str.split(',')) for cells written with
\* integer degrees: two fields, each a number, else the row is skipped
parse_coord(cell) ==
    LET parts == split(str(cell), ",")
    IN  IF Len(parts) = 2 /\ int(parts[1]).ok /\ int(parts[2]).ok
        THEN [ok |-> TRUE, val |-> <<int(parts[1]).val, int(parts[2]).val>>]
        ELSE [ok |-> FALSE, val |-> <<>>]

RECURSIVE load_rows(_, _)
load_rows(d, rows) ==
    IF rows = <<>> THEN d
    ELSE LET r == Head(rows)
             c == parse_coord(r.coordinates)
         IN  load_rows(IF c.ok
                       THEN dict_set(d, strip(str(r.city_airport)), c.val)
                       ELSE d,
                       Tail(rows))

load_airport_coordinates(file) ==
    IF file.ok THEN load_rows(EmptyDict, file.rows) ELSE EmptyDict

\* the html file: absent, or holding the embedded data of some run
Absent == [exists |-> FALSE]

HtmlFile(run, fs, rs, as) ==
    [exists |-> TRUE, run |-> run, flights |-> fs, routes |-> rs,
     airports |-> as]

\* a file left by an earlier run
OldFile == HtmlFile("earlier", <<>>, <<>>, {})

----------------------------------------------------------------------------
(* Inputs                                                                  *)

\* characters of the time cells tried
TimeChars == {"0", "1", "5", "8", ":", ".", "-", " "}

\* cells quoted by the specification, written with other digits, and cells
\* with a digit that is not decimal
ExtraTimes ==
    {<<"0", "3", ":", "3", "0">>, <<"2", "2", "5", "0">>,
     <<"2", "5", ":", "9", "9">>, <<"2", "5", "7", "5">>,
     <<"1", "2", "3", "4", "5">>, <<"0", "6", ":", "0", "0">>,
     <<"1", "2", ":", "0", "0">>, <<"2", "3", ":", "5", "9">>,
     <<"8", "sup2">>, <<"8", ":", "sup2">>, <<"8", ".", "sup2">>}

TimeInputs ==
    {NaN} \cup ExtraTimes
      \cup UNION {[1..n -> TimeChars] : n \in 0..MaxTimeLen}

\* airport names; two of them contain the key separator '-'
NameA == <<"A">>
NameB == <<"B">>
NameAd == <<"A", "-">>
NamedB == <<"-", "B">>

\* the coordinates of the airports, as [lat, lng]
Atlas(name) ==
    CASE name = NameA -> <<10, 20>> [] name = NameB -> <<30, 40>>
      [] name = NameAd -> <<50, 60>> [] name = NamedB -> <<70, 80>>
      [] OTHER -> <<0, 0>>

T0815 == <<"0", "8", ":", "1", "5">>
T2140 == <<"2", "1", ":", "4", "0">>
T0330 == <<"3", "3", "0">>
T1200 == <<"1", "2", "0", "0">>

AirHU == <<"H", "U">>
AirJD == <<"J", "D">>
Ac320 == <<"A", "3", "2", "0", "/", "B", "7", "3", "8">>
Ac190 == <<"E", "1", "9", "0">>
Days1357 == <<"1", "3", "5", "7">>

\* rows whose flights are handed to merge_flights_to_routes
MergeRows ==
    {Row(IF t = T0815 THEN AirHU ELSE AirJD, <<"1">>, p[1], p[2], t, T2140,
         Days1357, IF p[1] = NameA THEN Ac320 ELSE Ac190) :
        p \in {<<NameA, NameB>>, <<NameB, NameA>>,
               <<NameAd, NameB>>, <<NameA, NamedB>>},
        t \in {T0815, T2140, NaN}}
    \cup {Row(AirJD, <<"2">>, NameA, NameB, t, T2140, Days1357, NaN) :
             t \in {T0330, T1200}}

MergeFlights ==
    {flight_info(r, Atlas(city_of(r.departure)), Atlas(city_of(r.arrival))) :
        r \in MergeRows}

FlightLists == UNION {[1..n -> MergeFlights] : n \in 0..MaxFlights}

----------------------------------------------------------------------------
(* The three entry points                                                  *)

TimeIdle == tpc = "idle" /\ time_str = <<>> /\ time_info = None

DaysIdle == dpc = "idle" /\ days_str = <<>> /\ days_out = None

AircraftIdle ==
    /\ apc = "idle" /\ ac_cell = <<>> /\ ac_size = "default"
    /\ ac_type = <<>> /\ ac_parts = <<>>

HarnessIdle == DaysIdle /\ AircraftIdle

\* the page is not open
PageIdle ==
    /\ gpc = "idle" /\ changes = 0 /\ checked = {} /\ sel = None
    /\ filters = None
    /\ shown = <<>> /\ info = None

\* a single invocation is looked at
TwiceIdle == run_no = 0 /\ first = None

\* pre.py is not looked at
NightIdle ==
    /\ npc = "idle" /\ n_df = <<>> /\ n_i = 0 /\ mask = <<>>
    /\ filtered_df = <<>> /\ kpc = "idle" /\ clock = None

\* the page is not open in a browser
PanelIdle ==
    /\ ppc = "idle" /\ panelVisible = FALSE /\ isAnimating = FALSE
    /\ cp_visible = FALSE /\ bd_visible = FALSE /\ btn_open = FALSE
    /\ faded = FALSE /\ ip_display = "" /\ ip_visible = FALSE
    /\ ip_hiding = FALSE /\ toggle_timers = <<>> /\ hide_timers = 0
    /\ frames = 0 /\ last_call = "none" /\ toggles = 0

ExtraIdle == PageIdle /\ TwiceIdle /\ NightIdle /\ PanelIdle
PageRestIdle == TwiceIdle /\ NightIdle /\ PanelIdle
TwiceRestIdle == PageIdle /\ NightIdle /\ PanelIdle
NightRestIdle == PageIdle /\ TwiceIdle /\ PanelIdle
PanelRestIdle == PageIdle /\ TwiceIdle /\ NightIdle

MergeIdle ==
    /\ mpc = "idle" /\ m_flights = <<>> /\ m_i = 0
    /\ m_routes = <<>> /\ route_list = <<>>

PipelineIdle ==
    /\ pc = "idle" /\ coord_file = Unreadable /\ coord_dict = EmptyDict
    /\ excel_file = Unreadable /\ df = <<>> /\ idx = 0 /\ flights = <<>>
    /\ airports = {} /\ routes = <<>> /\ output_file = Absent

\* ---- parse_time called on one cell ----
InitTime ==
    /\ tpc = "call" /\ time_str \in TimeInputs /\ time_info = None
    /\ MergeIdle /\ PipelineIdle /\ HarnessIdle
    /\ ExtraIdle

CallParseTime ==
    /\ tpc = "call"
    /\ time_info' = parse_time(time_str)
    /\ tpc' = "ret"
    /\ UNCHANGED <<time_str, mvars, cvars,
                   hvars, xvars>>

NextTime == CallParseTime

SpecTime == InitTime /\ [][NextTime]_vars

\* ---- merge_flights_to_routes called on one flight list ----
InitMerge ==
    /\ mpc = "loop" /\ m_flights \in FlightLists /\ m_i = 0
    /\ m_routes = <<>> /\ route_list = <<>>
    /\ TimeIdle /\ PipelineIdle /\ HarnessIdle
    /\ ExtraIdle

MergeStep ==
    /\ mpc = "loop" /\ m_i < Len(m_flights)
    /\ m_routes' = merge_one(m_routes, m_flights[m_i + 1])
    /\ m_i' = m_i + 1
    /\ UNCHANGED <<mpc, m_flights, route_list, tvars, cvars,
                   hvars, xvars>>

MergeFinalize ==
    /\ mpc = "loop" /\ m_i = Len(m_flights)
    /\ route_list' = finalize(m_routes)
    /\ mpc' = "ret"
    /\ UNCHANGED <<m_flights, m_i, m_routes, tvars, cvars,
                   hvars, xvars>>

NextMerge == MergeStep \/ MergeFinalize

SpecMerge == InitMerge /\ [][NextMerge]_vars


\* ---- parse_days called on one cell ----

DaysChars == {"0", "1", "3", "7", "9", ",", " ", "sup2"}

\* the two cells quoted by the specification
Days1234567 == <<"1", "2", "3", "4", "5", "6", "7">>
Days13567 == <<"1", "3", "5", "6", "7">>

DaysInputs ==
    {NaN, Days1234567, Days13567}
      \cup UNION {[1..n -> DaysChars] : n \in 0..MaxDaysLen}

InitDays ==
    /\ dpc = "call" /\ days_str \in DaysInputs /\ days_out = None
    /\ AircraftIdle /\ TimeIdle /\ MergeIdle /\ PipelineIdle
    /\ ExtraIdle

CallParseDays ==
    /\ dpc = "call"
    /\ days_out' = parse_days(days_str)
    /\ dpc' = "ret"
    /\ UNCHANGED <<days_str, apc, ac_cell, ac_size, ac_type, ac_parts,
                   tvars, mvars, cvars, xvars>>

NextDays == CallParseDays

SpecDays == InitDays /\ [][NextDays]_vars

\* ---- the aircraft-type cell of one row ----

AcChars == {"A", "3", "/", ",", " "}

\* codes of the three lists, and cells that are none of them
AcTokens ==
    small_aircraft \cup medium_aircraft \cup large_aircraft
      \cup {<<"X", "Y", "Z", "9", "9", "9">>, <<"a", "3", "2", "0">>,
            <<"A", "3", "2", "0", "1">>, <<"E", "1", "9">>}

\* the tokens of ts joined by '/'
RECURSIVE JoinSlash(_)
JoinSlash(ts) ==
    IF Len(ts) = 1 THEN ts[1] ELSE ts[1] \o <<"/">> \o JoinSlash(Tail(ts))

AcInputs ==
    {NaN}
      \cup UNION {[1..n -> AcChars] : n \in 0..MaxAcLen}
      \cup {JoinSlash(ts) : ts \in UNION {[1..n -> AcTokens] : n \in 1..MaxCodes}}
      \cup {<<" ">> \o t \o <<",">> \o u \o <<" ">> :
               t \in small_aircraft, u \in large_aircraft}

InitAircraft ==
    /\ apc = "call" /\ ac_cell \in AcInputs /\ ac_size = "default"
    /\ ac_type = <<>> /\ ac_parts = <<>>
    /\ DaysIdle /\ TimeIdle /\ MergeIdle /\ PipelineIdle
    /\ ExtraIdle

\* classify_aircraft_size(cell)
CallClassify ==
    /\ apc = "call"
    /\ ac_size' = classify_aircraft_size(ac_cell)
    /\ apc' = "classified"
    /\ UNCHANGED <<ac_cell, ac_type, ac_parts, dpc, days_str, days_out,
                   tvars, mvars, cvars, xvars>>

\* aircraft_type and individual_aircraft of the flight built from the row
SplitAircraft ==
    /\ apc = "classified"
    /\ ac_type' = aircraft_type_of(ac_cell)
    /\ ac_parts' = aircraft_parts(aircraft_type_of(ac_cell))
    /\ apc' = "ret"
    /\ UNCHANGED <<ac_cell, ac_size, dpc, days_str, days_out,
                   tvars, mvars, cvars, xvars>>

NextAircraft == CallClassify \/ SplitAircraft

SpecAircraft == InitAircraft /\ [][NextAircraft]_vars

\* ---- create_flight_visualization called on one workbook ----

\* "lat,lng" as written in the coordinate workbook
CoordCell(name) ==
    IntToStr(Atlas(name)[1]) \o <<",">> \o IntToStr(Atlas(name)[2])

CoordRow(cell, name) == [city_airport |-> cell, coordinates |-> CoordCell(name)]

CoordFiles ==
    {Unreadable,
     Workbook(<<>>),
     Workbook(<<CoordRow(NameA, NameA), CoordRow(NameB, NameB)>>),
     Workbook(<<CoordRow(<<" ">> \o NameA, NameA),
                [city_airport |-> NameB, coordinates |-> <<"3", "0">>]>>),
     Workbook(<<CoordRow(NameA, NameA), CoordRow(NameB, NameB),
                CoordRow(NameAd, NameAd), CoordRow(NamedB, NamedB)>>)}

\* departure-time cells on both sides of the morning window, and two that
\* are no time
T0600 == <<"0", "6", ":", "0", "0">>
T559 == <<"5", "5", "9">>
TNone == <<"n", "/", "a">>
T8sp15 == <<"8", " ", "1", "5">>

\* days cells with digits that are no day of the week, and with a digit
\* int() does not convert
Days0118 == <<"0", "1", "1", "8">>
DaysSup2 == <<"sup2">>

SheetRows ==
    {Row(AirHU, <<"1">>, NameA, NameB, T0600, T2140, Days1357, Ac320),
     Row(AirJD, <<"2">>, <<" ">> \o NameA, NameB \o <<" ">>, T559, T0330,
         <<>>, Ac190),
     Row(AirHU, <<"3">>, NameB, NameA, TNone, T0330, Days0118, NaN),
     Row(AirJD, <<"4">>, NameAd, NameB, T8sp15, T2140, Days1357, Ac190),
     Row(AirJD, <<"5">>, NameA, NamedB, T1200, NaN, Days1357, Ac320),
     Row(AirHU, <<"6">>, NaN, NameA, NaN, NaN, NaN, NaN),
     Row(AirHU, <<"7">>, NameA, NameB, T0815, T2140, DaysSup2, Ac320)}

Sheets == UNION {[1..n -> SheetRows] : n \in 0..MaxRows}

Init ==
    /\ pc = "load_coords"
    /\ coord_file \in CoordFiles
    /\ coord_dict = EmptyDict
    /\ excel_file \in {Unreadable} \cup {Workbook(rows) : rows \in Sheets}
    /\ df = <<>> /\ idx = 0 /\ flights = <<>> /\ airports = {} /\ routes = <<>>
    /\ output_file \in {Absent, OldFile}
    /\ TimeIdle /\ MergeIdle /\ HarnessIdle
    /\ ExtraIdle

\* coord_dict = load_airport_coordinates()
LoadCoords ==
    /\ pc = "load_coords"
    /\ coord_dict' = load_airport_coordinates(coord_file)
    /\ pc' = "read_excel"
    /\ UNCHANGED <<coord_file, excel_file, df, idx, flights, airports, routes,
                   output_file, tvars, mvars,
                   hvars, xvars>>

\* a mutation of ReadExcel: the handler logs and carries on with no rows
ReadExcelNoReturn ==
    /\ pc = "read_excel"
    /\ df' = excel_file.rows /\ pc' = "rows"
    /\ UNCHANGED <<coord_file, coord_dict, excel_file, idx, flights, airports,
                   routes, output_file, tvars, mvars,
                   hvars, xvars>>

\* try: df = pd.read_excel(...) except: print; return
ReadExcel ==
    /\ pc = "read_excel"
    /\ IF excel_file.ok
       THEN df' = excel_file.rows /\ pc' = "rows"
       ELSE df' = df /\ pc' = "returned"
    /\ UNCHANGED <<coord_file, coord_dict, excel_file, idx, flights, airports,
                   routes, output_file, tvars, mvars,
                   hvars, xvars>>

\* a mutation of airport_entries: the arrival airport is not added
airport_entries_departure(dep_city, dep_coord, arr_city, arr_coord) ==
    {<<dep_city, dep_coord[1], dep_coord[2]>>}

\* the two tuples one flight adds to the airports set
airport_entries(dep_city, dep_coord, arr_city, arr_coord) ==
    {<<dep_city, dep_coord[1], dep_coord[2]>>,
     <<arr_city, arr_coord[1], arr_coord[2]>>}

\* one iteration of "for idx, row in df.iterrows()"
ProcessRow ==
    /\ pc = "rows" /\ idx < Len(df)
    /\ LET row == df[idx + 1]
           departure_city == city_of(row.departure)
           arrival_city == city_of(row.arrival)
       IN  IF departure_city \notin DOMAIN coord_dict
              \/ arrival_city \notin DOMAIN coord_dict
           THEN /\ idx' = idx + 1
                /\ UNCHANGED <<pc, flights, airports>>
           ELSE IF ~parse_days(row.days).ok
           THEN /\ pc' = "raised"
                /\ UNCHANGED <<idx, flights, airports>>
           ELSE LET dep_coord == coord_dict[departure_city]
                    arr_coord == coord_dict[arrival_city]
                IN  /\ flights' = Append(flights,
                                         flight_info(row, dep_coord, arr_coord))
                    /\ airports' = airports
                         \cup airport_entries(departure_city, dep_coord,
                                              arrival_city, arr_coord)
                    /\ idx' = idx + 1
                    /\ UNCHANGED pc
    /\ UNCHANGED <<coord_file, coord_dict, excel_file, df, routes,
                   output_file, tvars, mvars,
                   hvars, xvars>>

\* routes = merge_flights_to_routes(flights)
MergeRoutes ==
    /\ pc = "rows" /\ idx = Len(df)
    /\ routes' = merge_flights_to_routes(flights)
    /\ pc' = "center"
    /\ UNCHANGED <<coord_file, coord_dict, excel_file, df, idx, flights,
                   airports, output_file, tvars, mvars,
                   hvars, xvars>>

\* center_lat = sum(...) / len(airports): ZeroDivisionError on no airport
MapCenter ==
    /\ pc = "center"
    /\ pc' = IF Cardinality(airports) = 0 THEN "raised" ELSE "write"
    /\ UNCHANGED <<coord_file, coord_dict, excel_file, df, idx, flights,
                   airports, routes, output_file, tvars, mvars,
                   hvars, xvars>>

\* with open(output_file, 'w') as f: f.write(html_content)
WriteOutput ==
    /\ pc = "write"
    /\ output_file' = HtmlFile("this", flights, routes, airports)
    /\ pc' = "done"
    /\ UNCHANGED <<coord_file, coord_dict, excel_file, df, idx, flights,
                   airports, routes, tvars, mvars,
                   hvars, xvars>>

Next ==
    \/ LoadCoords
    \/ ReadExcel
    \/ ProcessRow
    \/ MergeRoutes
    \/ MapCenter
    \/ WriteOutput

Spec == Init /\ [][Next]_vars

----------------------------------------------------------------------------
(* The generated page: the script embedded in the html file                *)

\* s.filter(x => Test(x))
Filter(s, Test(_)) == SelectSeq(s, Test)

\* getCurrentFilters(): the checked days and the six select values
getCurrentFilters(boxes, selects) ==
    [days |-> boxes,
     airline |-> selects.airline,
     timePeriod |-> selects.timePeriod,
     airport |-> selects.airport,
     airportDirection |-> selects.airportDirection,
     aircraftType |-> selects.aircraftType,
     aircraftSize |-> selects.aircraftSize]

\* flight.days.some(day => filters.days.includes(day))
some_day(flight, f) ==
    \E i \in 1..Len(flight.days) : flight.days[i] \in f.days

\* the callback of route.flights.filter in routeMatchesFilters
flight_matches(flight, f) ==
    /\ some_day(flight, f)
    /\ ~(f.airline # <<>> /\ flight.airline # f.airline)
    /\ ~(f.aircraftType # <<>>
           /\ f.aircraftType \notin Range(flight.individual_aircraft))
    /\ ~(f.aircraftSize # "" /\ flight.aircraft_size # f.aircraftSize)
    /\ ~(f.timePeriod = "morning" /\ ~flight.is_morning)
    /\ ~(f.timePeriod = "evening" /\ flight.is_morning)

\* const matchingFlights of routeMatchesFilters
matchingFlights(route, f) ==
    LET Test(flight) == flight_matches(flight, f)
    IN  Filter(route.flights, Test)

routeMatchesFilters(route, f) ==
    /\ ~(f.timePeriod = "morning" /\ ~route.has_morning)
    /\ ~(f.timePeriod = "evening" /\ ~route.has_evening)
    /\ f.airport # <<>> =>
         /\ ~(f.airportDirection = "departure" /\ route.departure # f.airport)
         /\ ~(f.airportDirection = "arrival" /\ route.arrival # f.airport)
         /\ ~(f.airportDirection = "" /\ route.departure # f.airport
                /\ route.arrival # f.airport)
    /\ Len(matchingFlights(route, f)) > 0

\* the callback of route.flights.filter in the click handler of a route
click_flight_matches(flight, f) ==
    /\ some_day(flight, f)
    /\ ~(f.airline # <<>> /\ flight.airline # f.airline)
    /\ ~(f.aircraftType # <<>> /\ flight.aircraft_type # f.aircraftType)
    /\ ~(f.aircraftSize # "" /\ flight.aircraft_size # f.aircraftSize)
    /\ ~(f.timePeriod = "morning" /\ ~flight.is_morning)
    /\ ~(f.timePeriod = "evening" /\ flight.is_morning)

\* const matchingFlights of the click handler
clickMatchingFlights(route, f) ==
    LET Test(flight) == click_flight_matches(flight, f)
    IN  Filter(route.flights, Test)

\* routes.filter(route => routeMatchesFilters(route, filters)), as the
\* positions of the routes kept
RECURSIVE filteredRoutes(_, _, _)
filteredRoutes(rs, k, f) ==
    IF k > Len(rs) THEN <<>>
    ELSE (IF routeMatchesFilters(rs[k], f) THEN <<k>> ELSE <<>>)
         \o filteredRoutes(rs, k + 1, f)

\* ---- a run of create_flight_visualization, then the page it wrote ----

\* the coordinate workbook that lists every airport of the atlas
AtlasFile ==
    Workbook(<<CoordRow(NameA, NameA), CoordRow(NameB, NameB),
               CoordRow(NameAd, NameAd), CoordRow(NamedB, NamedB)>>)

\* days cells of one day, and cells without any digit
Days1 == <<"1">>
Days2 == <<"2">>

PageRows ==
    {Row(AirHU, <<"1">>, NameA, NameB, T0815, T2140, Days1, Ac320),
     Row(AirJD, <<"2">>, NameA, NameB, T2140, T0330, Days2, Ac190),
     Row(AirHU, <<"3">>, NameB, NameA, T2140, T0330, <<>>, Ac320),
     Row(AirJD, <<"4">>, NameA, NameB, T0815, T2140, NaN, NaN),
     Row(AirJD, <<"5">>, NameB, NameA, T0815, T0330, TNone, Ac190),
     Row(AirHU, <<"6">>, NameA, NameB, T0815, T2140, DaysSup2, Ac320)}

PageSheets == UNION {[1..n -> PageRows] : n \in 0..MaxPageRows}

\* the day check boxes the model clicks; the others stay checked
ToggledDays == {1, 2}

InitPage ==
    /\ pc = "load_coords"
    /\ coord_file = AtlasFile
    /\ coord_dict = EmptyDict
    /\ excel_file \in {Workbook(rows) : rows \in PageSheets}
    /\ df = <<>> /\ idx = 0 /\ flights = <<>> /\ airports = {} /\ routes = <<>>
    /\ output_file = Absent
    /\ TimeIdle /\ MergeIdle /\ HarnessIdle
    /\ ExtraIdle

\* the options of the select controls, as initializeControls fills them
Options(control) ==
    CASE control = "airline" ->
           {<<>>} \cup {output_file.flights[k].airline :
                           k \in 1..Len(output_file.flights)}
      [] control = "timePeriod" -> {"", "morning", "evening"}
      [] control = "airport" -> {<<>>} \cup {a[1] : a \in output_file.airports}
      [] control = "airportDirection" -> {"", "departure", "arrival"}
      [] control = "aircraftType" ->
           {<<>>} \cup UNION {output_file.routes[r].individual_aircraft :
                                 r \in 1..Len(output_file.routes)}
      [] control = "aircraftSize" ->
           {""} \cup {output_file.flights[k].aircraft_size :
                         k \in 1..Len(output_file.flights)}

Controls ==
    {"airline", "timePeriod", "airport", "airportDirection", "aircraftType",
     "aircraftSize"}

\* updateDisplay() with the controls at boxes and selects
updateDisplay(boxes, selects) ==
    /\ checked' = boxes
    /\ sel' = selects
    /\ filters' = getCurrentFilters(boxes, selects)
    /\ shown' = filteredRoutes(output_file.routes, 1,
                               getCurrentFilters(boxes, selects))

\* the script at the end of the page: initializeControls picks a default
\* airport at random, then updateDisplay
OpenPage ==
    /\ gpc = "idle" /\ pc = "done"
    /\ \E a \in (IF output_file.airports = {} THEN {<<>>}
                 ELSE {b[1] : b \in output_file.airports}) :
           updateDisplay(1..7,
                         [airline |-> <<>>, timePeriod |-> "", airport |-> a,
                          airportDirection |-> "", aircraftType |-> <<>>,
                          aircraftSize |-> ""])
    /\ gpc' = "ready"
    /\ UNCHANGED <<changes, info, tvars, hvars, mvars, cvars,
                   gvars_rest>>

\* toggleDay(day)
ToggleDay ==
    /\ gpc = "ready" /\ changes < MaxChanges
    /\ \E day \in ToggledDays :
           updateDisplay(IF day \in checked THEN checked \ {day}
                         ELSE checked \cup {day}, sel)
    /\ changes' = changes + 1
    /\ UNCHANGED <<gpc, info, tvars, hvars, mvars, cvars,
                   gvars_rest>>

\* the change event of a select control
ChangeSelect ==
    /\ gpc = "ready" /\ changes < MaxChanges
    /\ \E c \in Controls : \E v \in Options(c) :
           /\ v # sel[c]
           /\ updateDisplay(checked, [sel EXCEPT ![c] = v])
    /\ changes' = changes + 1
    /\ UNCHANGED <<gpc, info, tvars, hvars, mvars, cvars,
                   gvars_rest>>

\* the click handler of an airport marker
ClickAirport ==
    /\ gpc = "ready" /\ changes < MaxChanges
    /\ \E a \in output_file.airports :
           updateDisplay(checked,
                         [sel EXCEPT !.airport =
                              IF sel.airport = a[1] THEN <<>> ELSE a[1]])
    /\ changes' = changes + 1
    /\ UNCHANGED <<gpc, info, tvars, hvars, mvars, cvars,
                   gvars_rest>>

\* clickHandler of a route drawn by the last updateDisplay
ClickRoute ==
    /\ gpc = "ready"
    /\ \E k \in 1..Len(shown) :
           info' = [route |-> shown[k],
                    flights |-> clickMatchingFlights(
                                    output_file.routes[shown[k]], filters)]
    /\ UNCHANGED <<gpc, changes, checked, sel, filters, shown,
                   tvars, hvars, mvars, cvars,
                   gvars_rest>>

\* resetFilters(): every box checked, every select at its first option
ResetFilters ==
    /\ gpc = "ready"
    /\ updateDisplay(1..7,
                     [airline |-> <<>>, timePeriod |-> "", airport |-> <<>>,
                      airportDirection |-> "", aircraftType |-> <<>>,
                      aircraftSize |-> ""])
    /\ UNCHANGED <<gpc, changes, info, tvars, hvars, mvars, cvars,
                   gvars_rest>>

NextPage ==
    \/ LoadCoords
    \/ ReadExcel
    \/ ProcessRow
    \/ MergeRoutes
    \/ MapCenter
    \/ WriteOutput
    \/ OpenPage
    \/ ToggleDay
    \/ ClickAirport
    \/ ChangeSelect
    \/ ClickRoute
    \/ ResetFilters

SpecPage == InitPage /\ [][NextPage]_vars

\* ---- create_flight_visualization called twice on the same files ----

InitTwice ==
    /\ pc = "load_coords"
    /\ coord_file \in CoordFiles
    /\ coord_dict = EmptyDict
    /\ excel_file \in {Unreadable} \cup {Workbook(rows) : rows \in Sheets}
    /\ df = <<>> /\ idx = 0 /\ flights = <<>> /\ airports = {} /\ routes = <<>>
    /\ output_file = Absent
    /\ run_no = 1 /\ first = None
    /\ TimeIdle /\ MergeIdle /\ HarnessIdle /\ TwiceRestIdle

\* the invocation has ended: returned, raised, or written its file
Ended == pc \in {"returned", "raised", "done"}

\* a mutation of CallAgain: the list of flights is not made afresh
CallAgainKeepFlights ==
    /\ run_no = 1 /\ Ended
    /\ first' = [pc |-> pc, flights |-> flights, routes |-> routes,
                 airports |-> airports, output_file |-> output_file]
    /\ run_no' = 2
    /\ pc' = "load_coords" /\ coord_dict' = EmptyDict /\ df' = <<>>
    /\ idx' = 0 /\ airports' = {} /\ routes' = <<>>
    /\ UNCHANGED <<flights, coord_file, excel_file, output_file,
                   tvars, hvars, mvars, rvars_rest>>

\* the second call: the function's locals are made afresh (flights = [],
\* airports = set(), a new defaultdict), the files are as they were left
CallAgain ==
    /\ run_no = 1 /\ Ended
    /\ first' = [pc |-> pc, flights |-> flights, routes |-> routes,
                 airports |-> airports, output_file |-> output_file]
    /\ run_no' = 2
    /\ pc' = "load_coords" /\ coord_dict' = EmptyDict /\ df' = <<>>
    /\ idx' = 0 /\ flights' = <<>> /\ airports' = {} /\ routes' = <<>>
    /\ UNCHANGED <<coord_file, excel_file, output_file,
                   tvars, hvars, mvars, rvars_rest>>

NextTwice ==
    \/ LoadCoords
    \/ ReadExcel
    \/ ProcessRow
    \/ MergeRoutes
    \/ MapCenter
    \/ WriteOutput
    \/ CallAgain

SpecTwice == InitTwice /\ [][NextTwice]_vars

\* ---- pre.py: the night filter ----

\* most rows of the frame handed to filter_flight_by_time
MaxNightRows == 2
\* longest departure time read by both programs
MaxClockLen == 4

\* the alternatives of (?P<H>2[0-3]|[0-1]\d|\d) at the head of s, as the
\* lengths they consume, in the order the regular expression tries them
HourLens(s) ==
    (IF Len(s) >= 2
          /\ \/ s[1] = "2" /\ s[2] \in {"0", "1", "2", "3"}
             \/ s[1] \in {"0", "1"} /\ s[2] \in Digits
     THEN <<2>> ELSE <<>>)
      \o (IF Len(s) >= 1 /\ s[1] \in Digits THEN <<1>> ELSE <<>>)

\* the alternatives of (?P<M>[0-5]\d|\d) at position p of s (1-based)
MinuteLens(s, p) ==
    (IF Len(s) >= p + 1 /\ s[p] \in {"0", "1", "2", "3", "4", "5"}
          /\ s[p + 1] \in Digits
     THEN <<2>> ELSE <<>>)
      \o (IF Len(s) >= p /\ s[p] \in Digits THEN <<1>> ELSE <<>>)

\* the matches of the pattern %H<sep>%M at the head of s, as pairs
\* <<hour length, minute length>>, in the order backtracking finds them
RECURSIVE HourMinuteMatches(_, _, _)
HourMinuteMatches(s, sep, hs) ==
    IF hs = <<>> THEN <<>>
    ELSE LET h  == Head(hs)
             p  == h + Len(sep) + 1
             ms == IF Len(s) >= h + Len(sep)
                        /\ SubSeq(s, h + 1, h + Len(sep)) = sep
                   THEN MinuteLens(s, p) ELSE <<>>
         IN  [k \in 1..Len(ms) |-> <<h, ms[k]>>]
               \o HourMinuteMatches(s, sep, Tail(hs))

\* datetime.strptime(s, '%H' + sep + '%M'): the first match of the pattern
\* at the head of s; ValueError when there is none or when it leaves
\* unconverted data
strptime(s, sep) ==
    LET found == HourMinuteMatches(s, sep, HourLens(s))
    IN  IF found = <<>> THEN [ok |-> FALSE, hour |-> 0, minute |-> 0]
        ELSE LET h == found[1][1]
                 m == found[1][2]
             IN  IF h + Len(sep) + m # Len(s)
                 THEN [ok |-> FALSE, hour |-> 0, minute |-> 0]
                 ELSE [ok |-> TRUE,
                       hour |-> DigitsToNat(SubSeq(s, 1, h)),
                       minute |-> DigitsToNat(SubSeq(s, h + Len(sep) + 1,
                                                     Len(s)))]

\* time_formats of is_night_flight, as the text between %H and %M
time_formats == << <<":">>, <<>>, <<".">> >>

\* the time_obj of the first format of time_formats that parses the
\* stripped cell, or None when every format raises ValueError
night_clock(x) ==
    LET s  == strip(str(x))
        ok == {k \in 1..Len(time_formats) : strptime(s, time_formats[k]).ok}
    IN  IF ok = {} THEN None
        ELSE LET k == CHOOSE j \in ok : \A l \in ok : j <= l
                 t == strptime(s, time_formats[k])
             IN  [hour |-> t.hour, minute |-> t.minute]

\* the return expression of is_night_flight
night_window(total_minutes) ==
    total_minutes >= 1199 \/ (total_minutes <= 481 /\ total_minutes >= 1)

is_night_flight(x) ==
    LET c == night_clock(x)
    IN  IF c = None THEN TRUE ELSE night_window(c.hour * 60 + c.minute)

\* departure-time cells of the scraped table
NightTimes ==
    {NaN, <<>>, <<"-", "-">>,
     <<"1", "9", ":", "5", "8">>, <<"1", "9", ":", "5", "9">>,
     <<"2", "0", ":", "0", "0">>, <<"2", "3", ":", "5", "9">>,
     <<"0", "0", ":", "0", "0">>, <<"0", "0", ":", "0", "1">>,
     <<"0", "8", ":", "0", "0">>, <<"0", "8", ":", "0", "1">>,
     <<"0", "8", ":", "0", "2">>, <<"1", "2", ":", "0", "0">>,
     <<"1", "9", "5", "9">>, <<"0", "8", "0", "2">>, <<"8", ".", "0", "1">>,
     <<"0", "0", "0", "0">>, <<"2", "4", ":", "0", "0">>,
     <<" ", "8", ":", "0", "1">>, <<"2", "3", "0">>}

NightFrames == UNION {[1..n -> NightTimes] : n \in 0..MaxNightRows}

InitNight ==
    /\ npc = "apply" /\ n_df \in NightFrames /\ n_i = 0 /\ mask = <<>>
    /\ filtered_df = <<>> /\ kpc = "idle" /\ clock = None
    /\ TimeIdle /\ MergeIdle /\ PipelineIdle /\ HarnessIdle /\ NightRestIdle

\* df['...'].apply(is_night_flight), one cell at a time
ApplyIsNightFlight ==
    /\ npc = "apply" /\ n_i < Len(n_df)
    /\ n_i' = n_i + 1
    /\ mask' = Append(mask, is_night_flight(n_df[n_i + 1]))
    /\ UNCHANGED <<npc, n_df, filtered_df, kpc, clock,
                   tvars, hvars, mvars, cvars, nvars_rest>>

\* filtered_df = df[mask].copy(); return filtered_df
RECURSIVE masked(_, _, _)
masked(frame, m, k) ==
    IF k > Len(frame) THEN <<>>
    ELSE (IF m[k] THEN << [index |-> k, time |-> frame[k]] >> ELSE <<>>)
         \o masked(frame, m, k + 1)

SelectRows ==
    /\ npc = "apply" /\ n_i = Len(n_df)
    /\ filtered_df' = masked(n_df, mask, 1)
    /\ npc' = "ret"
    /\ UNCHANGED <<n_df, n_i, mask, kpc, clock,
                   tvars, hvars, mvars, cvars, nvars_rest>>

NextNight == ApplyIsNightFlight \/ SelectRows

SpecNight == InitNight /\ [][NextNight]_vars

\* ---- one departure time, read by is_night_flight and by parse_time ----
ClockChars == {"0", "1", "2", "3", "6", ":", ".", " "}

ClockInputs == UNION {[1..n -> ClockChars] : n \in 0..MaxClockLen}

InitClock ==
    /\ tpc = "call" /\ time_str \in ClockInputs /\ time_info = None
    /\ kpc = "call" /\ clock = None
    /\ npc = "idle" /\ n_df = <<>> /\ n_i = 0 /\ mask = <<>>
    /\ filtered_df = <<>>
    /\ MergeIdle /\ PipelineIdle /\ HarnessIdle /\ NightRestIdle

\* the hour and minute is_night_flight derives from the cell
CallIsNightFlight ==
    /\ kpc = "call"
    /\ clock' = night_clock(time_str)
    /\ kpc' = "ret"
    /\ UNCHANGED <<npc, n_df, n_i, mask, filtered_df,
                   tvars, hvars, mvars, cvars, nvars_rest>>

NextClock == CallParseTime \/ CallIsNightFlight

SpecClock == InitClock /\ [][NextClock]_vars

\* ---- the generated page: control panel and info panel ----

\* most calls of toggleControlPanel
MaxToggles == 3
\* most 300 ms callbacks of hideInfoPanel pending at once
MaxHideTimers == 2
\* most requestAnimationFrame callbacks pending at once
MaxFrames == 2

\* the page after its script has run, with a route drawn on the map
InitPanel ==
    /\ ppc = "open" /\ panelVisible = FALSE /\ isAnimating = FALSE
    /\ cp_visible = FALSE /\ bd_visible = FALSE /\ btn_open = FALSE
    /\ faded = FALSE /\ ip_display = "" /\ ip_visible = FALSE
    /\ ip_hiding = FALSE /\ toggle_timers = <<>> /\ hide_timers = 0
    /\ frames = 0 /\ last_call = "none" /\ toggles = 0
    /\ TimeIdle /\ MergeIdle /\ PipelineIdle /\ HarnessIdle /\ PanelRestIdle

\* the computed display of #info-panel: the inline style wins over the
\* style sheet, which has display none, and block with class 'visible'
displayed ==
    ip_display = "block" \/ (ip_display = "" /\ ip_visible)

\* a mutation of toggle_returns: the guard on isAnimating is dropped
toggle_returns_never(animating) == FALSE

\* if (isAnimating) return;
toggle_returns(animating) == animating

\* a click on #filter-toggle-btn: toggleControlPanel()
ToggleClick ==
    /\ ppc = "open" /\ toggles < MaxToggles
    /\ toggles' = toggles + 1
    /\ IF toggle_returns(isAnimating)
       THEN UNCHANGED <<panelVisible, isAnimating, cp_visible, bd_visible,
                        btn_open, faded, toggle_timers>>
       ELSE /\ isAnimating' = TRUE
            /\ IF ~panelVisible
               THEN /\ panelVisible' = TRUE
                    /\ faded' = TRUE
                    /\ btn_open' = TRUE
                    /\ bd_visible' = TRUE
                    /\ toggle_timers' = Append(toggle_timers, "open")
                    /\ UNCHANGED cp_visible
               ELSE /\ panelVisible' = FALSE
                    /\ cp_visible' = FALSE
                    /\ faded' = FALSE
                    /\ toggle_timers' = Append(toggle_timers, "close")
                    /\ UNCHANGED <<btn_open, bd_visible>>
    /\ UNCHANGED <<ppc, ip_display, ip_visible, ip_hiding, hide_timers,
                   frames, last_call,
                   tvars, hvars, mvars, cvars, pvars_rest>>

\* the oldest 100 ms callback of toggleControlPanel runs
FireToggleTimer ==
    /\ ppc = "open" /\ toggle_timers # <<>>
    /\ toggle_timers' = Tail(toggle_timers)
    /\ isAnimating' = FALSE
    /\ IF Head(toggle_timers) = "open"
       THEN cp_visible' = TRUE /\ UNCHANGED <<bd_visible, btn_open>>
       ELSE bd_visible' = FALSE /\ btn_open' = FALSE /\ UNCHANGED cp_visible
    /\ UNCHANGED <<ppc, panelVisible, faded, ip_display, ip_visible,
                   ip_hiding, hide_timers, frames, last_call, toggles,
                   tvars, hvars, mvars, cvars, pvars_rest>>

\* a click on a drawn route: clickHandler calls showInfoPanel
RouteClick ==
    /\ ppc = "open" /\ frames < MaxFrames
    /\ faded' = TRUE
    /\ ip_display' = "block"
    /\ frames' = frames + 1
    /\ last_call' = "show"
    /\ UNCHANGED <<ppc, panelVisible, isAnimating, cp_visible, bd_visible,
                   btn_open, ip_visible, ip_hiding, toggle_timers,
                   hide_timers, toggles,
                   tvars, hvars, mvars, cvars, pvars_rest>>

\* a callback of requestAnimationFrame runs
FireFrame ==
    /\ ppc = "open" /\ frames > 0
    /\ frames' = frames - 1
    /\ ip_visible' = TRUE
    /\ UNCHANGED <<ppc, panelVisible, isAnimating, cp_visible, bd_visible,
                   btn_open, faded, ip_display, ip_hiding, toggle_timers,
                   hide_timers, last_call, toggles,
                   tvars, hvars, mvars, cvars, pvars_rest>>

\* hideInfoPanel(): class 'hiding', a 300 ms callback, and the fade reset
hideInfoPanel ==
    /\ ip_hiding' = TRUE
    /\ hide_timers' = hide_timers + 1
    /\ faded' = panelVisible
    /\ last_call' = "hide"

\* a click on the close button of the info panel, which can be hit while
\* the panel is on screen
CloseClick ==
    /\ ppc = "open" /\ displayed /\ ip_visible
    /\ hide_timers < MaxHideTimers
    /\ hideInfoPanel
    /\ UNCHANGED <<ppc, panelVisible, isAnimating, cp_visible, bd_visible,
                   btn_open, ip_display, ip_visible, toggle_timers, frames,
                   toggles,
                   tvars, hvars, mvars, cvars, pvars_rest>>

\* map.on('click'): acts when #info-panel has class 'visible'
MapClick ==
    /\ ppc = "open" /\ ip_visible
    /\ hide_timers < MaxHideTimers
    /\ ip_visible' = FALSE
    /\ hideInfoPanel
    /\ UNCHANGED <<ppc, panelVisible, isAnimating, cp_visible, bd_visible,
                   btn_open, ip_display, toggle_timers, frames, toggles,
                   tvars, hvars, mvars, cvars, pvars_rest>>

\* a click on the reset button inside the open control panel:
\* resetFilters() calls hideInfoPanel(), then redraws the routes
ResetClick ==
    /\ ppc = "open" /\ cp_visible
    /\ hide_timers < MaxHideTimers
    /\ hideInfoPanel
    /\ UNCHANGED <<ppc, panelVisible, isAnimating, cp_visible, bd_visible,
                   btn_open, ip_display, ip_visible, toggle_timers, frames,
                   toggles,
                   tvars, hvars, mvars, cvars, pvars_rest>>

\* a 300 ms callback of hideInfoPanel runs
FireHideTimer ==
    /\ ppc = "open" /\ hide_timers > 0
    /\ hide_timers' = hide_timers - 1
    /\ ip_display' = "none"
    /\ ip_hiding' = FALSE
    /\ ip_visible' = FALSE
    /\ UNCHANGED <<ppc, panelVisible, isAnimating, cp_visible, bd_visible,
                   btn_open, faded, toggle_timers, frames, last_call,
                   toggles,
                   tvars, hvars, mvars, cvars, pvars_rest>>

NextPanel ==
    \/ ToggleClick
    \/ FireToggleTimer
    \/ RouteClick
    \/ FireFrame
    \/ CloseClick
    \/ MapClick
    \/ ResetClick
    \/ FireHideTimer

SpecPanel == InitPanel /\ [][NextPanel]_vars

\* the event loop runs every callback that setTimeout has queued
SpecPanelFair == SpecPanel /\ WF_vars(FireToggleTimer)


----------------------------------------------------------------------------
(* Properties of merge_flights_to_routes (SpecMerge)                       *)

\* positions <<r, j>> of the returned routes at which flight f is listed
PlacesOf(f) ==
    {p \in (1..Len(route_list)) \X (1..MaxFlights + 1) :
        p[2] <= Len(route_list[p[1]].flights)
        /\ route_list[p[1]].flights[p[2]] = f}

\* the routes that list flight f
RoutesOf(f) == {p[1] : p \in PlacesOf(f)}

\* the positions of the input at which flight f stands
InputsOf(f) == {i \in 1..Len(m_flights) : m_flights[i] = f}

\* C1: every input flight is listed in exactly one returned route, as often
\* as it stands in the input (once per input position), and the key of that
\* route is the flight's departure, "-", and the flight's arrival.
C1_EachFlightInOneRoute ==
    mpc = "ret" =>
        \A i \in 1..Len(m_flights) :
            LET f == m_flights[i]
            IN  /\ Cardinality(RoutesOf(f)) = 1
                /\ Cardinality(PlacesOf(f)) = Cardinality(InputsOf(f))
                /\ \A r \in RoutesOf(f) :
                       route_list[r].route_key
                         = f.departure \o <<"-">> \o f.arrival

C1_Witness ==
    /\ mpc = "ret" /\ Len(m_flights) = 3 /\ Len(route_list) = 2
    /\ m_flights[1] # m_flights[3]
    /\ RoutesOf(m_flights[1]) = RoutesOf(m_flights[3])

\* C2 (as claimed): two input flights are listed in the same route exactly
\* when their departures are equal and their arrivals are equal.
C2_SameRouteIffSamePair ==
    mpc = "ret" =>
        \A i, j \in 1..Len(m_flights) :
            (RoutesOf(m_flights[i]) \cap RoutesOf(m_flights[j]) # {})
              <=> (/\ m_flights[i].departure = m_flights[j].departure
                   /\ m_flights[i].arrival = m_flights[j].arrival)

\* C3: has_morning of a route says that some listed flight is a morning
\* flight, has_evening that some listed flight is not.
C3_FlagsAreAny ==
    mpc = "ret" =>
        \A r \in 1..Len(route_list) :
            LET fs == route_list[r].flights
            IN  /\ route_list[r].has_morning
                     <=> \E j \in 1..Len(fs) : fs[j].is_morning
                /\ route_list[r].has_evening
                     <=> \E j \in 1..Len(fs) : ~fs[j].is_morning

C3_Witness ==
    /\ mpc = "ret"
    /\ \E r \in 1..Len(route_list) :
           /\ route_list[r].has_morning /\ ~route_list[r].has_evening
           /\ Len(route_list[r].flights) = 2
    /\ \E r \in 1..Len(route_list) :
           ~route_list[r].has_morning /\ route_list[r].has_evening

\* C4: route_type is "both" exactly when both flags are set, else "morning"
\* exactly when has_morning, else "evening"; the colour is fixed by the
\* type; departures 08:15 and 21:40 on one pair give one route of type both.
C4_TypeAndColor ==
    mpc = "ret" =>
        /\ \A r \in 1..Len(route_list) :
               LET rt == route_list[r]
               IN  /\ rt.route_type = "both"
                        <=> (rt.has_morning /\ rt.has_evening)
                   /\ rt.route_type = "morning"
                        <=> (rt.has_morning /\ ~rt.has_evening)
                   /\ rt.route_type = "evening" <=> ~rt.has_morning
                   /\ rt.route_type = "both" => rt.color = "#CE6A85"
                   /\ rt.route_type = "morning" => rt.color = "#FF8C61"
                   /\ rt.route_type = "evening" => rt.color = "#4E598C"
        /\ (/\ Len(m_flights) = 2
            /\ m_flights[1].departure = m_flights[2].departure
            /\ m_flights[1].arrival = m_flights[2].arrival
            /\ m_flights[1].departure_time = TimeInfo(8, 15)
            /\ m_flights[2].departure_time = TimeInfo(21, 40))
           => /\ Len(route_list) = 1
              /\ route_list[1].route_type = "both"
              /\ route_list[1].color = "#CE6A85"
              /\ route_list[1].flight_count = 2

C4_Witness ==
    /\ mpc = "ret" /\ Len(m_flights) = 2 /\ Len(route_list) = 1
    /\ m_flights[1].departure_time = TimeInfo(8, 15)
    /\ m_flights[2].departure_time = TimeInfo(21, 40)
    /\ route_list[1].route_type = "both"

\* departure before noon / at or after noon or unknown
BeforeNoon(f) == f.departure_time # None /\ f.departure_time.hour < 12

NoonOrLaterOrUnknown(f) ==
    f.departure_time = None \/ f.departure_time.hour >= 12

InMorningWindow(f) ==
    /\ f.departure_time # None
    /\ f.departure_time.hour >= 6 /\ f.departure_time.hour < 12

OutsideMorningWindow(f) ==
    \/ f.departure_time = None
    \/ f.departure_time.hour < 6
    \/ f.departure_time.hour >= 12

KeyOf(f) == f.departure \o <<"-">> \o f.arrival

\* the input position at which key k is first seen
FirstSeen(k) ==
    CHOOSE i \in 1..Len(m_flights) :
        /\ KeyOf(m_flights[i]) = k
        /\ \A j \in 1..(i - 1) : KeyOf(m_flights[j]) # k

\* the input flights filed under key k, in input order
RECURSIVE FlightsWithKey(_, _)
FlightsWithKey(fs, k) ==
    IF fs = <<>> THEN <<>>
    ELSE (IF KeyOf(Head(fs)) = k THEN <<Head(fs)>> ELSE <<>>)
         \o FlightsWithKey(Tail(fs), k)

\* C6: one route per distinct key, routes in the order in which their keys
\* are first seen, and each route lists its flights in input order.
C6_StableGrouping ==
    mpc = "ret" =>
        /\ {route_list[r].route_key : r \in 1..Len(route_list)}
             = {KeyOf(m_flights[i]) : i \in 1..Len(m_flights)}
        /\ \A a, b \in 1..Len(route_list) :
               a < b => /\ route_list[a].route_key # route_list[b].route_key
                        /\ FirstSeen(route_list[a].route_key)
                             < FirstSeen(route_list[b].route_key)
        /\ \A r \in 1..Len(route_list) :
               route_list[r].flights
                 = FlightsWithKey(m_flights, route_list[r].route_key)

C6_Witness ==
    /\ mpc = "ret" /\ Len(m_flights) = 3 /\ Len(route_list) = 2
    /\ KeyOf(m_flights[1]) = KeyOf(m_flights[3])
    /\ KeyOf(m_flights[1]) # KeyOf(m_flights[2])
    /\ m_flights[1] # m_flights[3]
    /\ m_flights[2].departure = NameA /\ m_flights[1].departure = NameB


----------------------------------------------------------------------------
(* Properties of create_flight_visualization (Spec)                        *)

\* both endpoint names of a row, stripped, are keys of the coordinate table
Resolves(row) ==
    /\ strip(str(row.departure)) \in DOMAIN coord_dict
    /\ strip(str(row.arrival)) \in DOMAIN coord_dict

\* the rows among rs that resolve, in row order
RECURSIVE ResolvedRows(_)
ResolvedRows(rs) ==
    IF rs = <<>> THEN <<>>
    ELSE (IF Resolves(Head(rs)) THEN <<Head(rs)>> ELSE <<>>)
         \o ResolvedRows(Tail(rs))

C8_UnresolvedNeverFatal ==
    (excel_file.ok /\ Len(excel_file.rows) > 0
       /\ pc \in {"raised", "returned", "done"})
      => /\ pc = "done"
         /\ output_file = HtmlFile("this", flights, routes, airports)

\* C9: when the workbook cannot be read, no step of the invocation changes
\* the output file, and the invocation goes from the read to its return.
C9_ReadFailureWritesNothing ==
    [][~excel_file.ok =>
          /\ output_file' = output_file
          /\ pc' \in {"read_excel", "returned"}]_vars

C9_Witness ==
    /\ pc = "returned" /\ ~excel_file.ok /\ output_file = OldFile
    /\ DOMAIN coord_dict # {}

----------------------------------------------------------------------------
(* Properties of parse_time (SpecTime)                                     *)

\* the fixed-width rule, read off a digit string
WidthHour(s) ==
    IF Len(s) <= 2 THEN 0
    ELSE IF Len(s) = 3 THEN DigitVal(s[1])
    ELSE DigitVal(s[1]) * 10 + DigitVal(s[2])

RECURSIVE ValueOf(_)
ValueOf(s) == IF s = <<>> THEN 0 ELSE DigitVal(Head(s)) + 10 * ValueOf(Tail(s))

Reverse(s) == [i \in 1..Len(s) |-> s[Len(s) + 1 - i]]

WidthMinute(s) ==
    IF Len(s) <= 2 THEN ValueOf(Reverse(s))
    ELSE IF Len(s) = 3 THEN ValueOf(Reverse(SubSeq(s, 2, 3)))
    ELSE ValueOf(Reverse(SubSeq(s, 3, Len(s))))

\* a digit string without its leading zeros (one digit is always kept)
RECURSIVE WithoutLeadingZeros(_)
WithoutLeadingZeros(s) ==
    IF Len(s) > 1 /\ Head(s) = "0" THEN WithoutLeadingZeros(Tail(s)) ELSE s

\* C10 (as claimed): for a string of digits, parse_time applies the
\* fixed-width rule to the length of the raw string.
C10_WidthRuleOnRawString ==
    (tpc = "ret" /\ isdecimal(time_str)) =>
        /\ time_info # None
        /\ time_info.hour = WidthHour(time_str)
        /\ time_info.minute = WidthMinute(time_str)

\* C10 (amended): for a string of digits, parse_time applies the
\* fixed-width rule to the string without its leading zeros; for at most
\* 4 digits, and for more digits with no leading zero, that is the rule
\* applied to the raw string.
C10_WidthRuleOnCanonicalString ==
    (tpc = "ret" /\ isdecimal(time_str)) =>
        /\ time_info # None
        /\ time_info.hour = WidthHour(WithoutLeadingZeros(time_str))
        /\ time_info.minute = WidthMinute(WithoutLeadingZeros(time_str))
        /\ (Len(time_str) <= 4 \/ Head(time_str) # "0")
             => /\ time_info.hour = WidthHour(time_str)
                /\ time_info.minute = WidthMinute(time_str)

C10_Witness ==
    /\ tpc = "ret" /\ time_str = <<"0", "0", "8", "1", "5">>
    /\ time_info # None /\ time_info.hour = 8 /\ time_info.minute = 15


\* C11 (as claimed): every time parse_time returns has its hour in 0..23
\* and its minute in 0..59.
C11_HourAndMinuteInRange ==
    (tpc = "ret" /\ time_info # None) =>
        /\ time_info.hour \in 0..23
        /\ time_info.minute \in 0..59

\* a cell of the form digits ':' digits
IsClockForm(s) ==
    /\ Count(s, ":") = 1
    /\ \E k \in 2..(Len(s) - 1) :
           /\ s[k] = ":"
           /\ \A i \in 1..Len(s) : i # k => s[i] \in Digits

\* a cell that is a number: digits, with at most one decimal point
IsNumberForm(s) ==
    /\ Count(s, ".") <= 1
    /\ \E i \in 1..Len(s) : s[i] \in Digits
    /\ \A i \in 1..Len(s) : s[i] \in Digits \cup {"."}

\* C12 (as claimed): a missing cell, and every cell that once stripped is
\* neither of the form HH:MM nor a number, makes parse_time return None.
C12_NoneOnEveryParseFailure ==
    (/\ tpc = "ret"
     /\ \/ isna(time_str)
        \/ ~IsClockForm(strip(time_str)) /\ ~IsNumberForm(strip(time_str)))
      => time_info = None

\* n written in at least two characters, zeros in front: format "02d"
RECURSIVE DecimalOf(_)
DecimalOf(n) ==
    IF n < 10 THEN <<DigitChar(n)>>
    ELSE DecimalOf((n - (n % 10)) \div 10) \o <<DigitChar(n % 10)>>

ZeroPadded2(n) ==
    IF n < 0 THEN <<"-">> \o DecimalOf(0 - n)
    ELSE IF n < 10 THEN <<"0", DigitChar(n)>>
    ELSE DecimalOf(n)

\* C13: of every time parse_time returns, is_next_day says hour < 6, and
\* display is the hour and the minute, each zero-padded to two places,
\* joined by ':', followed by the next-day suffix exactly when is_next_day.
C13_NextDayAndDisplay ==
    (tpc = "ret" /\ time_info # None) =>
        /\ time_info.is_next_day <=> time_info.hour < 6
        /\ time_info.display
             = ZeroPadded2(time_info.hour) \o <<":">>
                 \o ZeroPadded2(time_info.minute)
                 \o (IF time_info.is_next_day THEN NextDaySuffix ELSE <<>>)
        /\ time_str = <<"5">>
             => time_info = [hour |-> 0, minute |-> 5, is_next_day |-> TRUE,
                             display |-> <<"0", "0", ":", "0", "5">>
                                           \o NextDaySuffix]
        /\ time_str = <<"0", "3", ":", "3", "0">>
             => /\ time_info.hour = 3 /\ time_info.minute = 30
                /\ time_info.is_next_day

C13_Witness ==
    /\ tpc = "ret" /\ time_str = <<"5">> /\ time_info # None
    /\ time_info.is_next_day
    /\ time_info.display = <<"0", "0", ":", "0", "5">> \o NextDaySuffix

----------------------------------------------------------------------------
(* Properties of parse_days (SpecDays)                                     *)

\* the positions of the decimal digit characters of s
DecimalPositions(s) == {i \in 1..Len(s) : s[i] \in Digits}

\* the k-th of them, counted from the left
KthDecimal(s, k) ==
    CHOOSE i \in DecimalPositions(s) :
        Cardinality({j \in DecimalPositions(s) : j < i}) = k - 1

\* C14 (as claimed): parse_days returns the values of the decimal digit
\* characters of the raw string, in their order, every other character
\* ignored; a missing or empty cell gives the empty collection.
C14_DigitsOfRawString ==
    dpc = "ret" =>
        /\ days_out.ok
        /\ IF isna(days_str) \/ days_str = <<>> THEN days_out.val = <<>>
           ELSE /\ Len(days_out.val) = Cardinality(DecimalPositions(days_str))
                /\ \A k \in 1..Len(days_out.val) :
                       days_out.val[k]
                         = DigitVal(days_str[KthDecimal(days_str, k)])
        /\ days_str = Days1234567 => Range(days_out.val) = 1..7
        /\ days_str = Days13567 => Range(days_out.val) = {1, 3, 5, 6, 7}

----------------------------------------------------------------------------
(* Properties of the flights built by the row loop (Spec)                  *)

\* C15 (as claimed): in the written output every flight's days are days
\* of the week, 1 to 7, none of them twice.
C15_DaysAreDaysOfWeek ==
    pc = "done" =>
        \A k \in 1..Len(flights) :
            LET days == flights[k].days
            IN  /\ \A j \in 1..Len(days) : days[j] \in 1..7
                /\ \A i, j \in 1..Len(days) : i # j => days[i] # days[j]

----------------------------------------------------------------------------
(* Properties of the aircraft cell (SpecAircraft)                          *)

\* code occurs in s, character by character
Occurs(code, s) ==
    \E i \in 1..Len(s) :
        \A j \in 1..Len(code) : i + j - 1 <= Len(s) /\ s[i + j - 1] = code[j]

\* the size categories of which some code occurs in s
MatchedSizes(s) ==
    {c \in {"small", "medium", "large"} :
        \E code \in (CASE c = "small" -> small_aircraft
                       [] c = "medium" -> medium_aircraft
                       [] c = "large" -> large_aircraft) : Occurs(code, s)}

\* C16: classify_aircraft_size answers the one size category that has a
\* code occurring in the trimmed, upper-cased cell when there is exactly
\* one such category, and the default otherwise (no category, two or more
\* categories, missing cell).
C16_SizeByCategoryCount ==
    apc \in {"classified", "ret"} =>
        /\ IF isna(ac_cell) THEN ac_size = "default"
           ELSE LET cats == MatchedSizes(upper(strip(ac_cell)))
                IN  IF Cardinality(cats) = 1 THEN ac_size \in cats
                    ELSE ac_size = "default"
        /\ ac_cell = Ac320 => ac_size = "medium"
        /\ ac_cell = <<"E", "1", "9", "0", "/", "A", "3", "3", "2">>
             => ac_size = "default"
        /\ ac_cell = <<"X", "Y", "Z", "9", "9", "9">> => ac_size = "default"

C16_Witness ==
    /\ apc = "classified"
    /\ ac_cell = <<"E", "1", "9", "0", "/", "A", "3", "3", "2">>
    /\ MatchedSizes(upper(strip(ac_cell))) = {"small", "large"}
    /\ ac_size = "default"

----------------------------------------------------------------------------
(* More properties of the flights built by the row loop (Spec)             *)

\* a departure-time cell that is no time: missing, or neither of the form
\* HH:MM nor a number
Unparseable(cell) ==
    \/ isna(cell)
    \/ ~IsClockForm(strip(cell)) /\ ~IsNumberForm(strip(cell))

\* C17 (as claimed): a flight is a morning flight exactly when it has a
\* departure time whose hour is at least 6 and less than 12; a row whose
\* departure-time cell is no time still gives a flight, with a null
\* departure time and is_morning false.
C17_MorningIffInWindow ==
    LET kept == ResolvedRows(SubSeq(df, 1, idx))
    IN  \A k \in 1..Len(flights) :
            /\ flights[k].is_morning
                 <=> /\ flights[k].departure_time # None
                     /\ 6 <= flights[k].departure_time.hour
                     /\ flights[k].departure_time.hour < 12
            /\ k <= Len(kept)
            /\ Unparseable(kept[k].departure_time)
                 => /\ flights[k].departure_time = None
                    /\ ~flights[k].is_morning

----------------------------------------------------------------------------
(* Properties of individual_aircraft (SpecAircraft)                        *)

\* the characters that separate aircraft codes
Separators == {"/", ",", " "}

\* the positions at which a maximal run of non-separators begins
TokenStarts(s) ==
    {i \in 1..Len(s) : s[i] \notin Separators
                        /\ (i = 1 \/ s[i - 1] \in Separators)}

\* the position at which the run beginning at i ends
TokenEnd(s, i) ==
    CHOOSE j \in i..Len(s) :
        /\ \A m \in i..j : s[m] \notin Separators
        /\ (j = Len(s) \/ s[j + 1] \in Separators)

\* the k-th run, counted from the left
KthToken(s, k) ==
    LET i == CHOOSE p \in TokenStarts(s) :
                 Cardinality({q \in TokenStarts(s) : q < p}) = k - 1
    IN  SubSeq(s, i, TokenEnd(s, i))

\* C18: individual_aircraft lists, in order, the maximal runs of characters
\* of aircraft_type other than '/', ',' and white space; it is empty for
\* the unknown sentinel and for a blank aircraft_type; no token is empty or
\* holds a separator.
C18_TokensOfAircraftType ==
    apc = "ret" =>
        /\ ac_type = (IF isna(ac_cell) THEN UnknownAircraft ELSE ac_cell)
        /\ IF ac_type = UnknownAircraft \/ strip(ac_type) = <<>>
           THEN ac_parts = <<>>
           ELSE /\ Len(ac_parts) = Cardinality(TokenStarts(ac_type))
                /\ \A k \in 1..Len(ac_parts) :
                       ac_parts[k] = KthToken(ac_type, k)
        /\ \A k \in 1..Len(ac_parts) :
               /\ ac_parts[k] # <<>>
               /\ \A i \in 1..Len(ac_parts[k]) :
                      ac_parts[k][i] \notin Separators

C18_Witness ==
    /\ apc = "ret"
    /\ ac_cell = <<" ", "E", "1", "9", "0", ",", "A", "3", "3", "2", " ">>
    /\ ac_parts = <<<<"E", "1", "9", "0">>, <<"A", "3", "3", "2">>>>

----------------------------------------------------------------------------
(* Properties of the routes and airports of one run (Spec)                 *)

\* C19: every route's individual_aircraft is the union of its member
\* flights' individual_aircraft lists, and its airlines and aircraft_sizes
\* are the sets of its member flights' airline and aircraft_size.
C19_RouteSetsFromMembers ==
    \A r \in 1..Len(routes) :
        LET members == Range(routes[r].flights)
        IN  /\ routes[r].individual_aircraft
                 = UNION {Range(f.individual_aircraft) : f \in members}
            /\ routes[r].airlines = {f.airline : f \in members}
            /\ routes[r].aircraft_sizes = {f.aircraft_size : f \in members}

C19_Witness ==
    /\ pc = "done"
    /\ \E r \in 1..Len(routes) :
           /\ Len(routes[r].flights) = 2
           /\ routes[r].airlines = {AirHU, AirJD}
           /\ routes[r].aircraft_sizes = {"medium", "small"}
           /\ routes[r].individual_aircraft
                = {<<"A", "3", "2", "0">>, <<"B", "7", "3", "8">>, Ac190}

\* the airport entries that are the endpoints of flight f
EndpointsOf(f) ==
    {<<f.departure, f.departure_coord[1], f.departure_coord[2]>>,
     <<f.arrival, f.arrival_coord[1], f.arrival_coord[2]>>}

\* C20: no airport name stands in two entries of the airports collection,
\* and the entries are exactly the endpoints of the retained flights.
C20_AirportsOncePerName ==
    /\ \A a, b \in airports : a[1] = b[1] => a = b
    /\ airports = UNION {EndpointsOf(flights[k]) : k \in 1..Len(flights)}

C20_Witness ==
    /\ pc = "done" /\ Len(flights) = 3 /\ Cardinality(airports) = 2
    /\ \E k \in 1..3 : flights[k].departure = NameB
    /\ \E k \in 1..3 : flights[k].departure = NameA

----------------------------------------------------------------------------
(* Properties of the generated page (SpecPage)                             *)

\* a days cell that is missing, empty or without any decimal digit
NoDayCell(cell) == isna(cell) \/ DecimalPositions(strip(cell)) = {}

\* the run is over: the page is written or an exception ended the run
RunOver == pc \in {"done", "raised"}

\* C21 (as claimed): every row whose days cell is empty or unparseable
\* gives a flight with no day, listed in a route and counted in its
\* flight_count; in the page no filter setting counts such a flight as
\* matching, and a route of such flights only is never displayed.
C21_EmptyDaysKeptNeverShown ==
    /\ RunOver =>
         \A i \in 1..Len(excel_file.rows) :
             NoDayCell(excel_file.rows[i].days) =>
                 \E k \in 1..Len(flights) :
                     /\ flights[k].flight_number
                          = excel_file.rows[i].flight_number
                     /\ flights[k].days = <<>>
                     /\ \E r \in 1..Len(routes) :
                            /\ flights[k] \in Range(routes[r].flights)
                            /\ routes[r].flight_count
                                 = Len(routes[r].flights)
    /\ gpc = "ready" =>
         /\ \A r \in 1..Len(output_file.routes) :
                \A fl \in Range(matchingFlights(output_file.routes[r],
                                                filters)) : fl.days # <<>>
         /\ \A k \in 1..Len(shown) :
                \E fl \in Range(output_file.routes[shown[k]].flights) :
                    \E d \in Range(fl.days) : d \in checked

----------------------------------------------------------------------------
(* More properties of merge_flights_to_routes (SpecMerge)                  *)

\* the sum of the flight_count of the routes from position k on
RECURSIVE SumCounts(_, _)
SumCounts(rl, k) ==
    IF k > Len(rl) THEN 0 ELSE rl[k].flight_count + SumCounts(rl, k + 1)

\* C22: of every returned route flight_count is the length of its flight
\* list and at least 1; the flight_counts add up to the number of input
\* flights; one flight alone gives one route of one flight whose type is
\* morning-only when the flight is a morning flight, evening-only else.
C22_FlightCounts ==
    mpc = "ret" =>
        /\ \A r \in 1..Len(route_list) :
               /\ route_list[r].flight_count = Len(route_list[r].flights)
               /\ route_list[r].flight_count >= 1
        /\ SumCounts(route_list, 1) = Len(m_flights)
        /\ Len(m_flights) = 1 =>
               /\ Len(route_list) = 1
               /\ route_list[1].flight_count = 1
               /\ route_list[1].flights = m_flights
               /\ route_list[1].route_type
                    = (IF m_flights[1].is_morning THEN "morning"
                       ELSE "evening")

C22_Witness ==
    /\ mpc = "ret" /\ Len(m_flights) = 3 /\ Len(route_list) = 2
    /\ route_list[1].flight_count = 2 /\ route_list[2].flight_count = 1
    /\ Cardinality(route_list[1].airlines) = 1

----------------------------------------------------------------------------
(* Properties of two invocations on the same files (SpecTwice)             *)

C24_ClickListsMatchingFlights ==
    [][info' # info =>
         /\ info'.flights
              = matchingFlights(output_file.routes[info'.route], filters)
         /\ info'.flights # <<>>]_vars

(***************************************************************************)
(* Properties of pre.py's night filter (SpecNight, SpecClock)              *)
(***************************************************************************)

\* the rows of the frame that a test of their clock keeps, in frame order
RECURSIVE RowsKept(_, _, _)
RowsKept(frame, Keep(_), k) ==
    IF k > Len(frame) THEN <<>>
    ELSE (IF Keep(night_clock(frame[k]))
          THEN << [index |-> k, time |-> frame[k]] >> ELSE <<>>)
         \o RowsKept(frame, Keep, k + 1)

\* 19:59 <= t or t <= 08:01, midnight itself included
InNightWindow(c) ==
    c = None \/ c.hour * 60 + c.minute >= 19 * 60 + 59
             \/ c.hour * 60 + c.minute <= 8 * 60 + 1

\* C25: filter_flight_by_time returns, in input order, exactly the rows
\* whose departure time lies in 19:59..08:01 (both ends and 00:00 included)
\* together with the rows whose departure time no format parses.
C25_KeepsNightWindow ==
    npc = "ret" => filtered_df = RowsKept(n_df, InNightWindow, 1)

\* C30: a departure time that is_night_flight parses and parse_time accepts
\* gets the same hour and minute from both.
C30_SameHourAndMinute ==
    (kpc = "ret" /\ tpc = "ret" /\ clock # None /\ time_info # None) =>
        /\ clock.hour = time_info.hour
        /\ clock.minute = time_info.minute

(***************************************************************************)
(* The endpoints of a route (SpecMerge)                                    *)
(***************************************************************************)

\* C26: the departure, arrival, departure_coord and arrival_coord of a
\* returned route are those of every flight listed in it.
C26_EndpointsOfEveryMember ==
    mpc = "ret" =>
        \A r \in 1..Len(route_list) :
            \A k \in 1..Len(route_list[r].flights) :
                LET f == route_list[r].flights[k]
                IN  /\ route_list[r].departure = f.departure
                    /\ route_list[r].arrival = f.arrival
                    /\ route_list[r].departure_coord = f.departure_coord
                    /\ route_list[r].arrival_coord = f.arrival_coord

(***************************************************************************)
(* Properties of the panels of the generated page (SpecPanel,              *)
(* SpecPanelFair)                                                          *)
(***************************************************************************)

\* C27: from a call of showInfoPanel to the next call of hideInfoPanel the
\* info panel has display 'block', and class 'visible' once the animation
\* frame of the call has run; no callback of an earlier hideInfoPanel hides
\* it.
C27_ShownUntilNextHide ==
    last_call = "show" =>
        /\ ip_display = "block"
        /\ frames = 0 => ip_visible

\* C28: a call of toggleControlPanel made while isAnimating changes
\* nothing; at most one of its timers is pending; with isAnimating false
\* the classes of the control panel, the backdrop and the toggle button
\* agree with panelVisible; and isAnimating always becomes false again.
C28_ToggleProtocol ==
    /\ [][(toggles' # toggles /\ isAnimating) =>
            UNCHANGED <<panelVisible, isAnimating, cp_visible, bd_visible,
                        btn_open, faded, toggle_timers, ip_display,
                        ip_visible, ip_hiding, hide_timers, frames>>]_vars
    /\ [](Len(toggle_timers) <= 1)
    /\ [](~isAnimating =>
            /\ cp_visible = panelVisible
            /\ bd_visible = panelVisible
            /\ btn_open = panelVisible)
    /\ (isAnimating ~> ~isAnimating)

\* a second call came while the opening animation ran, and was dropped
C28_Witness ==
    /\ toggles = 2 /\ isAnimating /\ toggle_timers = <<"open">>
    /\ panelVisible /\ ~cp_visible /\ bd_visible /\ btn_open

\* C29: the background elements are faded exactly while the control panel
\* is open or the info panel is being shown.
C29_FadedIffAPanelIsUp ==
    faded <=> (panelVisible \/ last_call = "show")

============================================================================
